---- MODULE Spec2Model ----
(***************************************************************************)
(* Saaurabh Collections storefront (src/app.py): per-session cart, the     *)
(* checkout that writes order rows to the shared Google sheet, and the     *)
(* "My Orders" read path.                                                  *)
(*                                                                         *)
(* Text values (phone, name, address, pincode, reference) are sequences of *)
(* one-character strings, so that strip() and the numeric parsing done on  *)
(* read are modelled by what they do.  One Streamlit script run is one     *)
(* action, except save_orders_to_sheet, which is split at its network      *)
(* calls (get_all_values, append_row): the sheet is shared by all sessions *)
(* and other sessions' calls interleave there.                             *)
(***************************************************************************)
EXTENDS Integers, Sequences, FiniteSets, TLC

\* ------------------------------------------------------------------ bounds
\* Checkouts that pass validation, per session.
MaxCheckouts == 1
\* Largest quantity a cart line is allowed to reach.
MaxLineQty == 2

\* ------------------------------------------------- program constants
\* st.number_input(min_value=1, max_value=10)
QtyMin == 1
QtyMax == 10

Sessions == {"s1", "s2"}

\* ------------------------------------------------------------------ text
None == <<"None">>
Digits == {"0", "1", "2", "3", "4", "5", "6", "7", "8", "9"}

RECURSIVE LStrip(_)
LStrip(s) == IF s # <<>> /\ Head(s) = " " THEN LStrip(Tail(s)) ELSE s

RECURSIVE RStrip(_)
RStrip(s) ==
    IF s # <<>> /\ s[Len(s)] = " " THEN RStrip(SubSeq(s, 1, Len(s) - 1)) ELSE s

\* str.strip()
Strip(s) == RStrip(LStrip(s))

\* Python truthiness of a str: `not s` is True exactly for the empty string.
Truthy(s) == s # <<>>

\* int(value) succeeds: surrounding whitespace, an optional sign, digits.
IsIntLiteral(s) ==
    LET t == Strip(s)
        d == IF t # <<>> /\ Head(t) = "+" THEN Tail(t) ELSE t
    IN  d # <<>> /\ \A i \in 1..Len(d) : d[i] \in Digits

RECURSIVE DropZeros(_)
DropZeros(d) == IF Len(d) > 1 /\ Head(d) = "0" THEN DropZeros(Tail(d)) ELSE d

\* str(int(value)): the decimal text of the parsed number.
IntText(s) ==
    LET t == Strip(s)
        d == IF t # <<>> /\ Head(t) = "+" THEN Tail(t) ELSE t
    IN  DropZeros(d)

\* gspread get_all_records() numericises every cell by default: a cell that
\* int() accepts comes back as that int; df["Phone"].astype(str) then turns
\* it into its decimal text.  Other cells come back unchanged.
Numericise(v) == IF IsIntLiteral(v) THEN IntText(v) ELSE v

\* --------------------------------------------------------------- catalog
CatalogKeys ==
    {"IMG_20250707_221915",
     "IMG_20250707_222238",
     "IMG_20250707_222103",
     "IMG_20250707_222735",
     "IMG_20250707_222554",
     "IMG_20250729_114338_1",
     "IMG_20250729_114339_1",
     "IMG_20250729_114339_2",
     "IMG_20250729_114338_2",
     "IMG_20250729_114339_3",
     "IMG_20250729_114340_1",
     "IMG_20250729_114340_2",
     "IMG_20250729_114341_1",
     "IMG_20250729_114340_3",
     "IMG_20250729_114341_2",
     "IMG_20250729_114342_1",
     "IMG_20250729_114342_2"}

rakhi_catalog ==
    [k \in CatalogKeys |->
        CASE k = "IMG_20250707_221915" ->
                [title |-> "Elegant Thread Rakhi", price |-> 120, discount |-> 40]
          [] k = "IMG_20250707_222238" ->
                [title |-> "Traditional Beads Rakhi", price |-> 120, discount |-> 40]
          [] k = "IMG_20250707_222103" ->
                [title |-> "Simple Grace Rakhi", price |-> 80, discount |-> 20]
          [] k = "IMG_20250707_222735" ->
                [title |-> "Royal Red Rakhi", price |-> 80, discount |-> 20]
          [] k = "IMG_20250707_222554" ->
                [title |-> "Pearl Designer Rakhi", price |-> 120, discount |-> 40]
          [] k = "IMG_20250729_114338_1" ->
                [title |-> "Golden Stone Rakhi", price |-> 150, discount |-> 45]
          [] k = "IMG_20250729_114339_1" ->
                [title |-> "Rustic Charm Rakhi", price |-> 130, discount |-> 40]
          [] k = "IMG_20250729_114339_2" ->
                [title |-> "Twin Pearl Rakhi", price |-> 110, discount |-> 30]
          [] k = "IMG_20250729_114338_2" ->
                [title |-> "Red Feather Rakhi", price |-> 140, discount |-> 40]
          [] k = "IMG_20250729_114339_3" ->
                [title |-> "Antique Emblem Rakhi", price |-> 135, discount |-> 40]
          [] k = "IMG_20250729_114340_1" ->
                [title |-> "Threaded Diamond Rakhi", price |-> 160, discount |-> 50]
          [] k = "IMG_20250729_114340_2" ->
                [title |-> "Zari Pearl Rakhi", price |-> 115, discount |-> 30]
          [] k = "IMG_20250729_114341_1" ->
                [title |-> "Elegant Floral Rakhi", price |-> 125, discount |-> 30]
          [] k = "IMG_20250729_114340_3" ->
                [title |-> "Red Gemstone Rakhi", price |-> 145, discount |-> 40]
          [] k = "IMG_20250729_114341_2" ->
                [title |-> "Classic Rudraksha Rakhi", price |-> 95, discount |-> 20]
          [] k = "IMG_20250729_114342_1" ->
                [title |-> "Minimal Designer Rakhi", price |-> 105, discount |-> 25]
          [] k = "IMG_20250729_114342_2" ->
                [title |-> "Silver Stone Rakhi", price |-> 135, discount |-> 40]]

\* int(item["price"] * (1 - item["discount"] / 100))
final_price(item) == (item.price * (100 - item.discount)) \div 100

\* ---------------------------------------------------------------- inputs
\* Products whose "Add to Cart" button is pressed in the model.
ShopKeys == {"IMG_20250707_221915", "IMG_20250707_222103"}
\* Values of the quantity widget used in the model.
QtyInputs == {q \in QtyMin..QtyMax : q <= MaxLineQty}
\* Text typed into the login form.
PhoneInputs == {<<>>, <<"0", "9">>, <<" ", "9">>}
\* Text typed into the name, address and pincode widgets: empty or filled.
FieldInputs == {<<>>, <<"a">>}
\* Checkout forms: at most one of the three fields is left empty.
FormInputs ==
    {f \in [name : FieldInputs, address : FieldInputs, pincode : FieldInputs,
            reference_by : {<<>>}] :
        Cardinality({x \in {"name", "address", "pincode"} : f[x] = <<>>}) <= 1}
\* A checkout form whose name is one space.
BlankNameForm == [name |-> <<" ">>, address |-> <<"a">>, pincode |-> <<"a">>,
                  reference_by |-> <<>>]
GoodForm == [name |-> <<"a">>, address |-> <<"a">>, pincode |-> <<"a">>,
             reference_by |-> <<>>]
\* Tokens uuid4()[:8] returns in the model, numbered in their sort order.
OrderIds == {1, 2}
\* Readings of the wall clock, in seconds.
Times == {0, 1}

\* ------------------------------------------------------------- the sheet
Columns ==
    <<"Order ID", "Product", "Quantity", "Unit Price", "Subtotal", "Name",
      "Phone", "Address", "Pincode", "Reference By", "Timestamp">>

\* list(order_rows[0].keys()): the row of column names.
HeaderRow == [hdr |-> Columns]

IsHeader(r) == "hdr" \in DOMAIN r

\* The text of the "Phone" cell of a sheet row.
PhoneCell(r) == IF IsHeader(r) THEN <<"P", "h", "o", "n", "e">> ELSE r.Phone

\* sheet.get_all_records(): the first row gives the keys, every later row
\* is one record.
get_all_records(sheet) == IF sheet = <<>> THEN <<>> ELSE Tail(sheet)

\* df["Phone"].astype(str).str.strip() of one record read back.
PhoneKey(r) == Strip(Numericise(PhoneCell(r)))

RECURSIVE FilterRows(_, _)
FilterRows(data, p) ==
    IF data = <<>> THEN <<>>
    ELSE IF PhoneKey(Head(data)) = p
         THEN <<Head(data)>> \o FilterRows(Tail(data), p)
         ELSE FilterRows(Tail(data), p)

get_user_orders(sheet, phone_number) ==
    LET data == get_all_records(sheet)
    IN  IF data = <<>> THEN <<>> ELSE FilterRows(data, Strip(phone_number))

RECURSIVE SortedKeys(_)
SortedKeys(S) ==
    IF S = {} THEN <<>>
    ELSE LET lo == CHOOSE x \in S : \A y \in S : x <= y
         IN  <<lo>> \o SortedKeys(S \ {lo})

\* df.groupby("Order ID"): sort=True is the default, so the groups come in
\* ascending order of the key; each group keeps its rows in df order.
groupby(df) ==
    LET keys == SortedKeys({df[i].OrderID : i \in 1..Len(df)})
    IN  [g \in 1..Len(keys) |->
            [oid |-> keys[g],
             group |-> SelectSeq(df, LAMBDA r : r.OrderID = keys[g])]]

\* ------------------------------------------------------------------ cart
HasKey(c, key) == \E i \in 1..Len(c) : c[i].pid = key

LineQty(c, key) ==
    IF HasKey(c, key)
    THEN (CHOOSE l \in {c[i] : i \in 1..Len(c)} : l.pid = key).quantity
    ELSE 0

\* Mutant of AddLine: the quantity is assigned, not added.
AddLine_Assign(c, key, qty) ==
    IF HasKey(c, key)
    THEN [i \in 1..Len(c) |->
            IF c[i].pid = key THEN [c[i] EXCEPT !.quantity = qty] ELSE c[i]]
    ELSE Append(c, [pid |-> key, title |-> rakhi_catalog[key].title,
                    price |-> final_price(rakhi_catalog[key]), quantity |-> qty])

\* The body of the "Add to Cart" button; the cart is a dict, kept here in
\* its insertion order.
AddLine(c, key, qty) ==
    IF HasKey(c, key)
    THEN [i \in 1..Len(c) |->
            IF c[i].pid = key THEN [c[i] EXCEPT !.quantity = @ + qty] ELSE c[i]]
    ELSE Append(c, [pid |-> key, title |-> rakhi_catalog[key].title,
                    price |-> final_price(rakhi_catalog[key]), quantity |-> qty])

RECURSIVE CartTotal(_)
CartTotal(c) ==
    IF c = <<>> THEN 0
    ELSE Head(c).price * Head(c).quantity + CartTotal(Tail(c))

\* ------------------------------------------------------------- checkout
\* Mutant of Complete: the address is not checked.
Complete_NoAddress(name, address, pincode) == Truthy(name) /\ Truthy(pincode)

\* not (not name or not address or not pincode)
Complete(name, address, pincode) ==
    Truthy(name) /\ Truthy(address) /\ Truthy(pincode)

\* Mutant of OrderRows: the subtotal is the unit price.
OrderRows_UnitSubtotal(c, oid, ts, name, phone, address, pincode, ref) ==
    [i \in 1..Len(c) |->
        [OrderID |-> oid, Product |-> c[i].title, Quantity |-> c[i].quantity,
         UnitPrice |-> c[i].price, Subtotal |-> c[i].price,
         Name |-> name, Phone |-> phone, Address |-> address,
         Pincode |-> pincode, ReferenceBy |-> ref, Timestamp |-> ts]]

\* The list `orders` built from the cart.
OrderRows(c, oid, ts, name, phone, address, pincode, ref) ==
    [i \in 1..Len(c) |->
        [OrderID |-> oid, Product |-> c[i].title, Quantity |-> c[i].quantity,
         UnitPrice |-> c[i].price, Subtotal |-> c[i].price * c[i].quantity,
         Name |-> name, Phone |-> phone, Address |-> address,
         Pincode |-> pincode, ReferenceBy |-> ref, Timestamp |-> ts]]

\* ----------------------------------------------------------------- state
VARIABLES
    user_phone,    \* st.session_state.user_phone, None before login
    tab,           \* selected_tab: "shop" or "orders"
    cart,          \* st.session_state.cart, in insertion order
    pc,            \* where the session's script run stands
    result,        \* what the last run reported
    form,          \* the checkout form values of the last submit
    order_id,      \* order_id of the run, 0 when none was generated
    orders,        \* the list `orders` of the run
    k,             \* index of the next row of `for row in order_rows`
    total_price,   \* total_price of the run
    view,          \* df shown by "My Orders"
    ledger,        \* rows of the worksheet
    now,           \* the wall clock, in seconds
    nCheckouts,    \* checkouts the session has started so far
    appended,      \* history: rows the run has appended to the sheet
    cartAtSubmit,  \* history: the cart when "Place Order" was pressed
    added          \* history: quantity added per product since the cart was emptied

vars ==
    <<user_phone, tab, cart, pc, result, form, order_id, orders, k,
      total_price, view, ledger, now, nCheckouts, appended, cartAtSubmit, added>>

NoForm == [name |-> None, address |-> None, pincode |-> None, reference_by |-> None]
NoAdds == [p \in ShopKeys |-> 0]

Init ==
    /\ user_phone = [s \in Sessions |-> None]
    /\ tab = [s \in Sessions |-> "shop"]
    /\ cart = [s \in Sessions |-> <<>>]
    /\ pc = [s \in Sessions |-> "idle"]
    /\ result = [s \in Sessions |-> "none"]
    /\ form = [s \in Sessions |-> NoForm]
    /\ order_id = [s \in Sessions |-> 0]
    /\ orders = [s \in Sessions |-> <<>>]
    /\ k = [s \in Sessions |-> 0]
    /\ total_price = [s \in Sessions |-> 0]
    /\ view = [s \in Sessions |-> <<>>]
    /\ ledger = <<>>
    /\ now = 0
    /\ nCheckouts = [s \in Sessions |-> 0]
    /\ appended = [s \in Sessions |-> <<>>]
    /\ cartAtSubmit = [s \in Sessions |-> <<>>]
    /\ added = [s \in Sessions |-> NoAdds]

\* A new script run starts: the locals of the previous run are gone.
NewRun(s) ==
    /\ result' = [result EXCEPT ![s] = "none"]
    /\ form' = [form EXCEPT ![s] = NoForm]
    /\ order_id' = [order_id EXCEPT ![s] = 0]
    /\ orders' = [orders EXCEPT ![s] = <<>>]
    /\ k' = [k EXCEPT ![s] = 0]
    /\ total_price' = [total_price EXCEPT ![s] = 0]
    /\ appended' = [appended EXCEPT ![s] = <<>>]
    /\ cartAtSubmit' = [cartAtSubmit EXCEPT ![s] = <<>>]

Ready(s) == pc[s] = "idle" /\ user_phone[s] # None

\* login_form: a non-empty input is stripped and stored.
Login(s, input) ==
    /\ pc[s] = "idle"
    /\ user_phone[s] = None
    /\ user_phone' = [user_phone EXCEPT ![s] = IF Truthy(input) THEN Strip(input) ELSE @]
    /\ UNCHANGED <<tab, cart, pc, result, form, order_id, orders, k, total_price,
                   view, ledger, now, nCheckouts, appended, cartAtSubmit, added>>

\* Logout: st.session_state.clear()
Logout(s) ==
    /\ Ready(s)
    /\ user_phone' = [user_phone EXCEPT ![s] = None]
    /\ cart' = [cart EXCEPT ![s] = <<>>]
    /\ added' = [added EXCEPT ![s] = NoAdds]
    /\ tab' = [tab EXCEPT ![s] = "shop"]
    /\ view' = [view EXCEPT ![s] = <<>>]
    /\ NewRun(s)
    /\ UNCHANGED <<pc, ledger, now, nCheckouts>>

\* The "Add to Cart" button of product `key` with the quantity widget at qty.
AddToCart(s, key, qty) ==
    /\ Ready(s)
    /\ tab[s] = "shop"
    /\ LineQty(cart[s], key) + qty <= MaxLineQty
    /\ cart' = [cart EXCEPT ![s] = AddLine(@, key, qty)]
    /\ added' = [added EXCEPT ![s][key] = @ + qty]
    /\ NewRun(s)
    /\ UNCHANGED <<user_phone, tab, pc, view, ledger, now, nCheckouts>>

\* "Place Order": validation, then the order rows are built and
\* save_orders_to_sheet is entered.
PlaceOrder(s, name, address, pincode, reference_by, oid) ==
    /\ Ready(s)
    /\ tab[s] = "shop"
    /\ cart[s] # <<>>
    /\ form' = [form EXCEPT ![s] = [name |-> name, address |-> address,
                                    pincode |-> pincode, reference_by |-> reference_by]]
    /\ total_price' = [total_price EXCEPT ![s] = CartTotal(cart[s])]
    /\ cartAtSubmit' = [cartAtSubmit EXCEPT ![s] = cart[s]]
    /\ appended' = [appended EXCEPT ![s] = <<>>]
    /\ k' = [k EXCEPT ![s] = 0]
    /\ IF ~Complete(name, address, pincode)
       THEN /\ result' = [result EXCEPT ![s] = "rejected"]
            /\ order_id' = [order_id EXCEPT ![s] = 0]
            /\ orders' = [orders EXCEPT ![s] = <<>>]
            /\ UNCHANGED <<pc, nCheckouts>>
       ELSE /\ nCheckouts[s] < MaxCheckouts
            /\ order_id' = [order_id EXCEPT ![s] = oid]
            /\ orders' = [orders EXCEPT ![s] =
                   OrderRows(cart[s], oid, now, name, Strip(user_phone[s]),
                             address, pincode, reference_by)]
            /\ result' = [result EXCEPT ![s] = "none"]
            /\ pc' = [pc EXCEPT ![s] = "check"]
            /\ nCheckouts' = [nCheckouts EXCEPT ![s] = @ + 1]
    /\ UNCHANGED <<user_phone, tab, cart, view, ledger, now, added>>

\* save_orders_to_sheet: `if not sheet.get_all_values()`
GetAllValues(s) ==
    /\ pc[s] = "check"
    /\ IF ledger = <<>>
       THEN pc' = [pc EXCEPT ![s] = "header"] /\ UNCHANGED k
       ELSE pc' = [pc EXCEPT ![s] = "rows"] /\ k' = [k EXCEPT ![s] = 1]
    /\ UNCHANGED <<user_phone, tab, cart, result, form, order_id, orders,
                   total_price, view, ledger, now, nCheckouts, appended,
                   cartAtSubmit, added>>

\* save_orders_to_sheet: sheet.append_row(list(order_rows[0].keys()))
AppendHeader(s) ==
    /\ pc[s] = "header"
    /\ ledger' = Append(ledger, HeaderRow)
    /\ pc' = [pc EXCEPT ![s] = "rows"]
    /\ k' = [k EXCEPT ![s] = 1]
    /\ UNCHANGED <<user_phone, tab, cart, result, form, order_id, orders,
                   total_price, view, now, nCheckouts, appended, cartAtSubmit,
                   added>>

\* save_orders_to_sheet: one sheet.append_row(list(row.values())); after the
\* last one the run goes on to report success and empty the cart.
AppendRow(s) ==
    /\ pc[s] = "rows"
    /\ ledger' = Append(ledger, orders[s][k[s]])
    /\ appended' = [appended EXCEPT ![s] = Append(@, orders[s][k[s]])]
    /\ IF k[s] < Len(orders[s])
       THEN /\ k' = [k EXCEPT ![s] = @ + 1]
            /\ UNCHANGED <<pc, result, cart, added>>
       ELSE /\ pc' = [pc EXCEPT ![s] = "idle"]
            /\ result' = [result EXCEPT ![s] = "placed"]
            /\ cart' = [cart EXCEPT ![s] = <<>>]
            /\ added' = [added EXCEPT ![s] = NoAdds]
            /\ UNCHANGED k
    /\ UNCHANGED <<user_phone, tab, form, order_id, orders, total_price, view,
                   now, nCheckouts, cartAtSubmit>>

\* Mutant of SaveFail: the cart is emptied although the save failed.
SaveFail_ClearsCart(s) ==
    /\ pc[s] \in {"check", "header", "rows"}
    /\ pc' = [pc EXCEPT ![s] = "idle"]
    /\ result' = [result EXCEPT ![s] = "failed"]
    /\ cart' = [cart EXCEPT ![s] = <<>>]
    /\ UNCHANGED <<user_phone, tab, form, order_id, orders, k, total_price,
                   view, ledger, now, nCheckouts, appended, cartAtSubmit, added>>

\* A call of save_orders_to_sheet raises (network, auth, quota): the
\* exception ends the run before the lines after save_orders_to_sheet.
SaveFail(s) ==
    /\ pc[s] \in {"check", "header", "rows"}
    /\ pc' = [pc EXCEPT ![s] = "idle"]
    /\ result' = [result EXCEPT ![s] = "failed"]
    /\ UNCHANGED <<user_phone, tab, cart, form, order_id, orders, k,
                   total_price, view, ledger, now, nCheckouts, appended,
                   cartAtSubmit, added>>

\* The "My Orders" tab is selected: df = get_user_orders(phone)
MyOrders(s) ==
    /\ Ready(s)
    /\ tab[s] = "shop"
    /\ tab' = [tab EXCEPT ![s] = "orders"]
    /\ view' = [view EXCEPT ![s] = get_user_orders(ledger, Strip(user_phone[s]))]
    /\ NewRun(s)
    /\ UNCHANGED <<user_phone, cart, pc, ledger, now, nCheckouts, added>>

\* The "Shop" tab is selected again.
Shop(s) ==
    /\ Ready(s)
    /\ tab[s] = "orders"
    /\ tab' = [tab EXCEPT ![s] = "shop"]
    /\ view' = [view EXCEPT ![s] = <<>>]
    /\ NewRun(s)
    /\ UNCHANGED <<user_phone, cart, pc, ledger, now, nCheckouts, added>>

\* datetime.now() advances.
Tick ==
    /\ now + 1 \in Times
    /\ now' = now + 1
    /\ UNCHANGED <<user_phone, tab, cart, pc, result, form, order_id, orders, k,
                   total_price, view, ledger, nCheckouts, appended,
                   cartAtSubmit, added>>

\* The steps of session s on the Shop tab, with its inputs drawn from the
\* given sets.
ShopStep(s, phones, keys, qtys, forms, ids) ==
    \/ \E input \in phones : Login(s, input)
    \/ Logout(s)
    \/ \E key \in keys, qty \in qtys : AddToCart(s, key, qty)
    \/ \E f \in forms, oid \in ids :
            PlaceOrder(s, f.name, f.address, f.pincode, f.reference_by, oid)
    \/ GetAllValues(s)
    \/ AppendHeader(s)
    \/ AppendRow(s)
    \/ SaveFail(s)

\* The steps of session s that change the tab.
TabStep(s) ==
    \/ MyOrders(s)
    \/ Shop(s)

\* Two customers at the shared sheet.  The first logs in with either phone,
\* buys either product and may leave the name blank; the second has one
\* phone and one product.  Each adds
\* a product once, at the largest quantity.
Next ==
    \/ ShopStep("s1", PhoneInputs, ShopKeys, {MaxLineQty},
                {GoodForm, BlankNameForm}, OrderIds)
    \/ TabStep("s1")
    \/ ShopStep("s2", {<<" ", "9">>}, {"IMG_20250707_222103"}, {MaxLineQty},
                {GoodForm}, OrderIds)
    \/ TabStep("s2")

Spec == Init /\ [][Next]_vars

\* One customer shopping and checking out, with every form and quantity,
\* while the clock runs.
NextShop ==
    \/ ShopStep("s1", {<<>>, <<" ", "9">>}, ShopKeys, QtyInputs, FormInputs, {1})
    \/ Tick

SpecShop == Init /\ [][NextShop]_vars

\* ---------------------------------------------------------------- claims
Range(q) == {q[i] : i \in 1..Len(q)}

RECURSIVE SumSubtotals(_)
SumSubtotals(rows) ==
    IF rows = <<>> THEN 0 ELSE Head(rows).Subtotal + SumSubtotals(Tail(rows))

\* The rows after the first one that are order lines.
DataRows == SelectSeq(get_all_records(ledger), LAMBDA r : ~IsHeader(r))

\* C1: while save_orders_to_sheet is running and after it has failed, at
\* whatever point, the cart is the cart "Place Order" was pressed with, and
\* the run has not reported "Order placed".
C1_FailedSaveKeepsCart ==
    \A s \in Sessions :
        (pc[s] # "idle" \/ result[s] = "failed") =>
            /\ cart[s] = cartAtSubmit[s]
            /\ cart[s] # <<>>
            /\ result[s] # "placed"
            /\ Len(appended[s]) < Len(orders[s])

\* A save that failed after one of two rows was appended.
C1_FailedAfterOneRow ==
    \E s \in Sessions :
        /\ result[s] = "failed"
        /\ Len(orders[s]) = 2
        /\ appended[s] = <<orders[s][1]>>
        /\ ledger = <<HeaderRow, orders[s][1]>>

\* C2: a checkout whose name, address or pincode is the empty string is
\* rejected: no order_id is generated, the run writes no row to the sheet
\* and the cart is unchanged.
C2_EmptyFieldRejected ==
    \A s \in Sessions :
        (form[s] # NoForm /\
         (form[s].name = <<>> \/ form[s].address = <<>> \/ form[s].pincode = <<>>)) =>
            /\ result[s] = "rejected"
            /\ pc[s] = "idle"
            /\ order_id[s] = 0
            /\ orders[s] = <<>>
            /\ appended[s] = <<>>
            /\ cart[s] = cartAtSubmit[s]
            /\ cart[s] # <<>>

\* A rejected checkout with an empty address, the sheet holding an order.
C2_RejectedEmptyAddress ==
    \E s \in Sessions :
        /\ result[s] = "rejected"
        /\ form[s].address = <<>>
        /\ form[s].name # <<>>
        /\ Len(ledger) > 1

\* C3: no order line with a whitespace-only name, address or pincode is
\* ever written to the sheet.
C3_NoBlankFieldInLedger ==
    \A i \in 1..Len(DataRows) :
        /\ Strip(DataRows[i].Name) # <<>>
        /\ Strip(DataRows[i].Address) # <<>>
        /\ Strip(DataRows[i].Pincode) # <<>>

\* C4: all rows of the sheet that share an order_id come from one checkout:
\* they carry the same customer and delivery fields and the same timestamp.
C4_SharedIdSameCheckout ==
    \A i, j \in 1..Len(DataRows) :
        DataRows[i].OrderID = DataRows[j].OrderID =>
            /\ DataRows[i].Name = DataRows[j].Name
            /\ DataRows[i].Phone = DataRows[j].Phone
            /\ DataRows[i].Address = DataRows[j].Address
            /\ DataRows[i].Pincode = DataRows[j].Pincode
            /\ DataRows[i].ReferenceBy = DataRows[j].ReferenceBy
            /\ DataRows[i].Timestamp = DataRows[j].Timestamp

\* C5: a successful checkout of a cart of n lines has appended n rows, the
\* last n rows of the sheet, one per cart line in cart order, all with the
\* order_id and the timestamp of the checkout, each with Subtotal =
\* Unit Price * Quantity, and the Subtotals add up to total_price.
C5_PlacedOrderRows ==
    \A s \in Sessions :
        result[s] = "placed" =>
            LET n == Len(cartAtSubmit[s])
                rows == appended[s]
            IN  /\ n >= 1
                /\ Len(rows) = n
                /\ Len(ledger) >= n + 1
                /\ SubSeq(ledger, Len(ledger) - n + 1, Len(ledger)) = rows
                /\ \A i \in 1..n :
                     /\ rows[i].OrderID = order_id[s]
                     /\ rows[i].Timestamp = rows[1].Timestamp
                     /\ rows[i].Product = cartAtSubmit[s][i].title
                     /\ rows[i].Quantity = cartAtSubmit[s][i].quantity
                     /\ rows[i].UnitPrice = cartAtSubmit[s][i].price
                     /\ rows[i].Subtotal = rows[i].UnitPrice * rows[i].Quantity
                /\ SumSubtotals(rows) = total_price[s]
                /\ total_price[s] = CartTotal(cartAtSubmit[s])

\* A placed order of two lines, one of them with quantity 2.
C5_PlacedTwoLines ==
    \E s \in Sessions :
        /\ result[s] = "placed"
        /\ Len(appended[s]) = 2
        /\ \E i \in 1..2 : appended[s][i].Quantity = 2

\* C6: the cart has at most one line per product; a line's quantity is at
\* least 1 and is the sum of the quantities added for the product since the
\* cart was emptied; its price is the product's effective price; and adding
\* q1 then q2 of a product to the empty cart gives the one line that adding
\* q2 then q1 gives, with quantity q1 + q2 (evaluated where the sheet is
\* still empty: the two carts compared depend on the cart alone).
C6_CartLines ==
    \A s \in Sessions :
        /\ \A i, j \in 1..Len(cart[s]) : cart[s][i].pid = cart[s][j].pid => i = j
        /\ \A i \in 1..Len(cart[s]) :
             /\ cart[s][i].quantity >= 1
             /\ cart[s][i].quantity = added[s][cart[s][i].pid]
             /\ cart[s][i].price = final_price(rakhi_catalog[cart[s][i].pid])
        /\ \A key \in ShopKeys : added[s][key] > 0 => HasKey(cart[s], key)
        /\ (cart[s] = <<>> /\ ledger = <<>>) =>
             \A key \in ShopKeys, q1, q2 \in QtyInputs :
                 /\ AddLine(AddLine(cart[s], key, q1), key, q2)
                      = AddLine(AddLine(cart[s], key, q2), key, q1)
                 /\ AddLine(AddLine(cart[s], key, q1), key, q2)
                      = <<[pid |-> key, title |-> rakhi_catalog[key].title,
                           price |-> final_price(rakhi_catalog[key]),
                           quantity |-> q1 + q2]>>

\* A cart of two lines, the first with quantity 2, after a checkout.
C6_TwoLinesAfterCheckout ==
    \E s \in Sessions :
        /\ Len(cart[s]) = 2
        /\ cart[s][1].quantity = 2
        /\ Len(ledger) > 1

\* C7: a non-empty sheet has the header as its first row and no header
\* among the later rows.
C7_HeaderOnce ==
    ledger # <<>> =>
        /\ IsHeader(ledger[1])
        /\ \A i \in 2..Len(ledger) : ~IsHeader(ledger[i])

\* The rows of the sheet, after the first, whose Phone cell, trimmed, is p trimmed.
RowsOfPhone(sheet, p) ==
    SelectSeq(get_all_records(sheet), LAMBDA r : Strip(PhoneCell(r)) = Strip(p))

\* C8: a read of "My Orders" by a session logged in with phone p returns
\* exactly the rows whose Phone cell, trimmed, equals p trimmed, in sheet order.
C8_ReadReturnsOwnRows ==
    [][\A s \in Sessions :
          (tab[s] = "shop" /\ tab'[s] = "orders") =>
              view'[s] = RowsOfPhone(ledger, user_phone[s])]_vars

RECURSIVE FirstAppearance(_, _)
FirstAppearance(df, seen) ==
    IF df = <<>> THEN <<>>
    ELSE IF Head(df).OrderID \in seen
         THEN FirstAppearance(Tail(df), seen)
         ELSE <<Head(df).OrderID>>
                \o FirstAppearance(Tail(df), seen \cup {Head(df).OrderID})

\* C9: "My Orders" shows every row in exactly one group, a group holds the
\* rows of its order_id in sheet order, and the groups come in the order in
\* which their first rows appear in the filtered rows.
C9_GroupsInFirstAppearanceOrder ==
    \A s \in Sessions :
        tab[s] = "orders" =>
            LET gs == groupby(view[s])
            IN  /\ \A g \in 1..Len(gs) :
                     gs[g].group = SelectSeq(view[s], LAMBDA r : r.OrderID = gs[g].oid)
                /\ \A i \in 1..Len(view[s]) :
                     Cardinality({g \in 1..Len(gs) : gs[g].oid = view[s][i].OrderID}) = 1
                /\ [g \in 1..Len(gs) |-> gs[g].oid] = FirstAppearance(view[s], {})

\* C10: once a checkout has completed successfully, a later read by a
\* session logged in with the same phone returns every row of the order.
C10_ReadAfterCheckoutIsComplete ==
    [][\A t \in Sessions :
          (tab[t] = "shop" /\ tab'[t] = "orders") =>
              \A s \in Sessions :
                  (result[s] = "placed" /\ user_phone[s] = user_phone[t]) =>
                      Range(appended[s]) \subseteq Range(view'[t])]_vars

\* C10: a read that returned the first of the two rows of an order whose
\* checkout is still running.
C10_PartialRead ==
    \E s, t \in Sessions :
        /\ s # t
        /\ pc[s] = "rows"
        /\ Len(orders[s]) = 2
        /\ tab[t] = "orders"
        /\ view[t] = <<orders[s][1]>>
        /\ ledger = <<HeaderRow, orders[s][1]>>

====
